---- MODULE Spec2Model ----
(***************************************************************************)
(* Client-side session management and conversation synchronisation of the  *)
(* HackX frontend: AuthService (lib/auth.ts), the useAuth hook, the        *)
(* useAuthValidation hook (the Auth Gate), the Report page and the         *)
(* ChatSidebar.                                                            *)
(*                                                                         *)
(* JavaScript values are modelled as strings: "null" is the JS null, any   *)
(* other string is a truthy value.  One TLA+ action is one run-to-         *)
(* completion task of the event loop: the code between two network awaits, *)
(* with the microtask continuations of its callers.                        *)
(***************************************************************************)
EXTENDS Naturals, Sequences, FiniteSets, TLC

\* ------------------------------------------------------------------ bounds
\* Validation passes of one useAuthValidation instance that may be awaiting
\* their GET /auth/me answer at the same time.
MaxGatePasses == 2
\* AuthService.logout calls that may be awaiting POST /auth/logout at once.
MaxLogouts == 1
\* AuthService.authenticatedFetch calls that may be awaiting their answer.
MaxFetches == 1
\* sendMessage calls of one Report view that append a user turn.
MaxSends == 2

\* ------------------------------------------------------------------ values
Null == "null"
Tokens == {"tokA", "tokB"}
Paths == {"/signin", "/signup", "/dashboard"}
AuthPaths == {"/signin", "/signup"}

\* JS truthiness of the values the model uses.
Truthy(v) == v # Null

\* What fetch() can produce: a rejection (network error), or a Response with a
\* status and a body.  Bodies: an object with authenticated:true, an object
\* with authenticated:false, the JSON literal null, text that is not JSON.
NetErr == [kind |-> "neterr", status |-> 0, body |-> Null]
Http(s, b) == [kind |-> "http", status |-> s, body |-> b]
Bodies == {"user_authenticated", "user_unauthenticated", Null, "malformed"}
AuthMeResponses ==
    {NetErr, Http(401, Null), Http(500, Null)} \cup {Http(200, b) : b \in Bodies}

\* Response.ok
Ok(resp) == resp.kind \in {"http", "badjson"} /\ resp.status >= 200 /\ resp.status <= 299

\* ----------------------------------------------------------- Report values
\* A CompareResponse.  present = FALSE is the JS undefined; id = 0 is a missing
\* id (0, NaN and undefined are all falsy in `report?.id || ...`);
\* hasMessages = FALSE is a missing messages field.
NoReport == [present |-> FALSE, id |-> 0, hasMessages |-> FALSE, messages |-> <<>>,
             summary |-> "", discrepancy |-> <<>>]
Message(r, c) == [role |-> r, content |-> c]
StoredMessages == <<Message("user", "m1"), Message("assistant", "m2")>>
Reports ==
    {[present |-> TRUE, id |-> i, hasMessages |-> hm[1], messages |-> hm[2],
      summary |-> "summary", discrepancy |-> <<"d1">>] :
        i \in {0, 1}, hm \in {<<FALSE, <<>>>>, <<TRUE, <<>>>>, <<TRUE, StoredMessages>>}}
IdParams == {"none", "1", "abc"}
Texts == {"", "   ", "hello", " bye"}

WelcomeText ==
    "Hi! I generated a quick summary and highlighted differences. Ask me anything about this verification."
Welcome == Message("assistant", WelcomeText)
GenericReply == "I understand your question."
SendErrorReply == "Sorry, I encountered an error processing your message."

\* An HTTP 200 answer whose body is not JSON: response.json() rejects.
BadJson(b) == [kind |-> "badjson", status |-> 200, body |-> b]
ReportResponses ==
    {NetErr, Http(404, NoReport), Http(500, NoReport), BadJson(NoReport)}
        \cup {Http(200, r) : r \in Reports}
\* POST /message/{id}: the body is the `response` field, "" when it is missing
\* or empty.
SendResponses ==
    {NetErr, Http(500, ""), BadJson(""), Http(200, "ok"), Http(200, "")}
\* GET /reports: a JSON array of reports, or a JSON value that is no array.
ListResponse(k, s, arr, l) == [kind |-> k, status |-> s, isArray |-> arr, list |-> l]
ListResponses ==
    {ListResponse("neterr", 0, FALSE, <<>>), ListResponse("http", 401, FALSE, <<>>),
     ListResponse("http", 500, FALSE, <<>>), ListResponse("badjson", 200, FALSE, <<>>),
     ListResponse("http", 200, FALSE, <<>>), ListResponse("http", 200, TRUE, <<>>)}
        \cup {ListResponse("http", 200, TRUE, <<r>>) : r \in Reports}

VARIABLES
    op,             \* the operation that ran last
    input,          \* what that operation was given: its argument, or the answer it resumed on
    result,         \* what that operation gave back to its caller
    token,          \* localStorage["auth_token"]
    lastWrite,      \* the value of the last setItem on the token key, Null after removeItem
    urlToken,       \* the "token" parameter of window.location.search
    path,           \* location.pathname
    lastSent,       \* the last network request issued
    gcuDone,        \* the AuthService.getCurrentUser calls the last step completed
    gateMounted,    \* the component that called useAuthValidation is mounted
    gateUser,       \* useAuthValidation: user
    gateIsLoading,  \* useAuthValidation: isLoading
    gateInFlight,   \* validateAuth runs awaiting /auth/me, in start order
    gateNewest,     \* what became of the most recently started validateAuth
    gateDone,       \* the validateAuth runs the last step completed
    authLoad,       \* useAuth: where its loadUser() is
    authUser,       \* useAuth: user
    authLoading,    \* useAuth: loading
    authLoggedOut,  \* useAuth: a logout() has completed
    logoutInFlight, \* AuthService.logout calls awaiting POST /auth/logout
    afInFlight,     \* AuthService.authenticatedFetch calls awaiting their answer
    afLast,         \* the outcome of the last authenticatedFetch that settled
    rptMounted,     \* Report: the view is mounted
    rptIdParam,     \* Report: the :id parameter of the address
    report,         \* Report: report
    loading,        \* Report: loading
    messages,       \* Report: messages (the transcript)
    rptLoad,        \* Report: the report id of the awaiting GET /reports/{id}, or 0
    rptSends,       \* Report: sendMessage calls awaiting POST /message/{id}
    rptSendCount,   \* Report: sendMessage calls that appended a user turn
    sbMounted,      \* ChatSidebar: mounted
    sbReports,      \* ChatSidebar: reports
    sbLoading,      \* ChatSidebar: loading
    sbError,        \* ChatSidebar: error
    sbInFlight      \* ChatSidebar: GET /reports calls awaiting their answer

storeVars == <<token, lastWrite, urlToken, path, lastSent, gcuDone>>
gateVars == <<gateMounted, gateUser, gateIsLoading, gateInFlight, gateNewest, gateDone>>
authVars == <<authLoad, authUser, authLoading, authLoggedOut, logoutInFlight>>
afVars == <<afInFlight, afLast>>
rptVars == <<rptMounted, rptIdParam, report, loading, messages, rptLoad, rptSends,
             rptSendCount>>
sbVars == <<sbMounted, sbReports, sbLoading, sbError, sbInFlight>>
viewVars == <<rptVars, sbVars>>
vars == <<op, input, result, storeVars, gateVars, authVars, afVars, viewVars>>

NoRequest == [endpoint |-> "none", auth |-> Null, stored |-> Null]
Request(e, a, s) == [endpoint |-> e, auth |-> a, stored |-> s]

\* A completed getCurrentUser call: who called, the token it read, the answer
\* it got (NoResponse when it made no request), what it returned and the store
\* when it returned.
NoResponse == [kind |-> "none", status |-> 0, body |-> Null]
Call(c, t, resp, ret, after) ==
    [caller |-> c, token |-> t, resp |-> resp, ret |-> ret, storeAfter |-> after]
\* A completed validateAuth run: the pathname it closed over, what
\* getCurrentUser returned to it, and the navigations it made.
Pass(p, s, n) == [pathname |-> p, session |-> s, navs |-> n]

RemoveAt(s, i) == SubSeq(s, 1, i - 1) \o SubSeq(s, i + 1, Len(s))

\* ------------------------------------------------------------ AuthService
\* handleCallback: the store, the address and the return value afterwards.
HandleCallback_KeepsParam(store, url) ==
    IF Truthy(url) THEN [store |-> url, url |-> url, ret |-> url]
    ELSE [store |-> store, url |-> url, ret |-> Null]
HandleCallback(store, url) ==
    IF Truthy(url)
    THEN [store |-> url, url |-> Null, ret |-> url]
    ELSE [store |-> store, url |-> url, ret |-> Null]

\* getCurrentUser up to its await: with no token it returns null at once.
GetCurrentUserBegin_NoCheck(store) == [sends |-> TRUE, ret |-> Null]
GetCurrentUserBegin(store) ==
    IF ~Truthy(store)
    THEN [sends |-> FALSE, ret |-> Null]
    ELSE [sends |-> TRUE, ret |-> Null]

\* getCurrentUser with the clearToken() of its 401 branch dropped.
GetCurrentUserResume_KeepOn401(resp) ==
    IF resp.kind = "http" /\ Ok(resp) /\ resp.body # "malformed"
    THEN [clear |-> FALSE, ret |-> resp.body]
    ELSE [clear |-> FALSE, ret |-> Null]

\* getCurrentUser after the await of fetch: whether it clears the store, and
\* what it returns.
GetCurrentUserResume(resp) ==
    IF resp.kind = "neterr"
    THEN [clear |-> FALSE, ret |-> Null]
    ELSE IF ~Ok(resp)
         THEN IF resp.status = 401
              THEN [clear |-> TRUE, ret |-> Null]
              ELSE [clear |-> FALSE, ret |-> Null]
         ELSE IF resp.body = "malformed"
              THEN [clear |-> FALSE, ret |-> Null]
              ELSE [clear |-> FALSE, ret |-> resp.body]

\* authenticatedFetch with its `if (!token) throw` dropped: the request goes
\* out without a credential.
AuthenticatedFetchBegin_NoCheck(store) == [sends |-> TRUE, outcome |-> "pending"]

\* authenticatedFetch up to its await.
MissingCredential == "throw: No authentication token available"
AuthenticationExpired == "throw: Authentication expired"
NetworkError == "throw: network error"
AuthenticatedFetchBegin(store) ==
    IF ~Truthy(store)
    THEN [sends |-> FALSE, outcome |-> MissingCredential]
    ELSE [sends |-> TRUE, outcome |-> "pending"]

\* authenticatedFetch with the clearToken() of its 401 branch dropped.
AuthenticatedFetchResume_KeepOn401(resp) ==
    IF resp.kind = "neterr"
    THEN [clear |-> FALSE, outcome |-> NetworkError]
    ELSE IF resp.status = 401
         THEN [clear |-> FALSE, outcome |-> AuthenticationExpired]
         ELSE [clear |-> FALSE, outcome |-> "return"]

\* authenticatedFetch treating every non-2xx status as it treats 401.
AuthenticatedFetchResume_ExpireOnAnyFailure(resp) ==
    IF resp.kind = "neterr"
    THEN [clear |-> FALSE, outcome |-> NetworkError]
    ELSE IF ~Ok(resp)
         THEN [clear |-> TRUE, outcome |-> AuthenticationExpired]
         ELSE [clear |-> FALSE, outcome |-> "return"]

\* authenticatedFetch after the await of fetch.
AuthenticatedFetchResume(resp) ==
    IF resp.kind = "neterr"
    THEN [clear |-> FALSE, outcome |-> NetworkError]
    ELSE IF resp.status = 401
         THEN [clear |-> TRUE, outcome |-> AuthenticationExpired]
         ELSE [clear |-> FALSE, outcome |-> "return"]

\* ------------------------------------------------- useAuthValidation
\* validateAuth with the pathname test of its redirect dropped.
ValidateAuthResume_AlwaysRedirect(pathname, currentUser) ==
    IF Truthy(currentUser)
    THEN [user |-> currentUser, clear |-> FALSE, navs |-> <<"/dashboard">>]
    ELSE [user |-> Null, clear |-> TRUE, navs |-> <<>>]

\* validateAuth after the await of getCurrentUser.
ValidateAuthResume(pathname, currentUser) ==
    IF Truthy(currentUser)
    THEN [user |-> currentUser, clear |-> FALSE,
          navs |-> IF pathname \in AuthPaths THEN <<"/dashboard">> ELSE <<>>]
    ELSE [user |-> Null, clear |-> TRUE, navs |-> <<>>]

Init ==
    /\ op = "Init"
    /\ input = Null
    /\ result = Null
    /\ token \in Tokens \cup {Null}
    /\ lastWrite = token
    /\ urlToken \in Tokens \cup {Null}
    /\ path \in Paths
    /\ lastSent = NoRequest
    /\ gcuDone = <<>>
    /\ gateMounted = FALSE
    /\ gateUser = Null
    /\ gateIsLoading = TRUE
    /\ gateInFlight = <<>>
    /\ gateNewest = "none"
    /\ gateDone = <<>>
    /\ authLoad = [state |-> "unmounted", token |-> Null]
    /\ authUser = Null
    /\ authLoading = TRUE
    /\ authLoggedOut = FALSE
    /\ logoutInFlight = 0
    /\ afInFlight = <<>>
    /\ afLast = [token |-> Null, resp |-> NoResponse, outcome |-> "none"]
    /\ rptMounted = FALSE
    /\ rptIdParam = "none"
    /\ report = NoReport
    /\ loading = TRUE
    /\ messages = <<>>
    /\ rptLoad = 0
    /\ rptSends = <<>>
    /\ rptSendCount = 0
    /\ sbMounted = FALSE
    /\ sbReports = <<>>
    /\ sbLoading = FALSE
    /\ sbError = Null
    /\ sbInFlight = 0

\* The effect of useAuthValidation runs validateAuth on `pathname`, with
\* `store` and `url` the store and the address parameter at that moment, and
\* `inflight`, `done`, `calls` the runs still awaiting and the runs and calls
\* this step has completed so far.  `user` and `isLoading` are the hook's state
\* before the run.
GateStart_ValidateFirst(pathname, store, url, inflight, user, isLoading, done, calls) ==
    LET cb == HandleCallback(store, url)
        gcu == GetCurrentUserBegin(store)
        va == ValidateAuthResume(pathname, gcu.ret)
    IN /\ urlToken' = cb.url
       /\ IF gcu.sends
          THEN /\ token' = cb.store
               /\ lastWrite' = token'
               /\ lastSent' = Request("GET /auth/me", store, cb.store)
               /\ gateInFlight' = Append(inflight, [pathname |-> pathname, token |-> store])
               /\ gateNewest' = "pending"
               /\ gateUser' = user
               /\ gateIsLoading' = isLoading
               /\ gcuDone' = calls
               /\ gateDone' = done
          ELSE /\ token' = IF va.clear THEN Null ELSE cb.store
               /\ lastWrite' = token'
               /\ lastSent' = lastSent
               /\ gateInFlight' = inflight
               /\ gateNewest' = IF Truthy(gcu.ret) THEN "ok" ELSE "absent"
               /\ gateUser' = va.user
               /\ gateIsLoading' = FALSE
               /\ gcuDone' = Append(calls, Call("gate", cb.store, NoResponse, gcu.ret, cb.store))
               /\ gateDone' = Append(done, Pass(pathname, gcu.ret, va.navs))
GateStart(pathname, store, url, inflight, user, isLoading, done, calls) ==
    LET cb == HandleCallback(store, url)
        gcu == GetCurrentUserBegin(cb.store)
        va == ValidateAuthResume(pathname, gcu.ret)
    IN /\ urlToken' = cb.url
       /\ IF gcu.sends
          THEN /\ token' = cb.store
               /\ lastWrite' = token'
               /\ lastSent' = Request("GET /auth/me", cb.store, cb.store)
               /\ gateInFlight' = Append(inflight, [pathname |-> pathname, token |-> cb.store])
               /\ gateNewest' = "pending"
               /\ gateUser' = user
               /\ gateIsLoading' = isLoading
               /\ gcuDone' = calls
               /\ gateDone' = done
          ELSE /\ token' = IF va.clear THEN Null ELSE cb.store
               /\ lastWrite' = token'
               /\ lastSent' = lastSent
               /\ gateInFlight' = inflight
               /\ gateNewest' = IF Truthy(gcu.ret) THEN "ok" ELSE "absent"
               /\ gateUser' = va.user
               /\ gateIsLoading' = FALSE
               /\ gcuDone' = Append(calls, Call("gate", cb.store, NoResponse, gcu.ret, cb.store))
               /\ gateDone' = Append(done, Pass(pathname, gcu.ret, va.navs))

\* The hook mounts: its effect runs on the current path.
GateMount ==
    /\ gateNewest = "none"
    /\ op' = "GateMount"
    /\ gateMounted' = TRUE
    /\ input' = Null
    /\ result' = Null
    /\ GateStart(path, token, urlToken, gateInFlight, gateUser, gateIsLoading, <<>>, <<>>)
    /\ UNCHANGED <<path, authVars, afVars, viewVars>>

\* location.pathname changes under the mounted hook (a link, the back button):
\* the effect runs again; the runs already awaiting are not cancelled.
GatePathChange(p) ==
    /\ gateMounted
    /\ p # path
    /\ Len(gateInFlight) < MaxGatePasses
    /\ op' = "GatePathChange"
    /\ input' = p
    /\ result' = Null
    /\ path' = p
    /\ GateStart(p, token, Null, gateInFlight, gateUser, gateIsLoading, <<>>, <<>>)
    /\ UNCHANGED <<gateMounted, authVars, afVars, viewVars>>

\* The user leaves for the page at `p`: the component that called the hook
\* unmounts.  The effect has no cleanup, so the runs awaiting stay awaiting.
GateUnmount(p) ==
    /\ gateMounted
    /\ p # path
    /\ op' = "GateUnmount"
    /\ input' = p
    /\ result' = Null
    /\ gateMounted' = FALSE
    /\ path' = p
    /\ UNCHANGED <<token, lastWrite, urlToken, lastSent, gcuDone, gateUser, gateIsLoading,
                   gateInFlight, gateNewest, gateDone, authVars, afVars, viewVars>>

\* GET /auth/me of the i-th awaiting run settles with `resp`: getCurrentUser
\* resumes, then validateAuth.  navigate('/dashboard') changes the pathname,
\* so the effect runs again in the same hook.  When the component has
\* unmounted React drops setUser and setIsLoading and no effect runs again;
\* clearToken and navigate act as before.
GateResponse(i, resp) ==
    LET run == gateInFlight[i]
        gcu == GetCurrentUserResume(resp)
        store1 == IF gcu.clear THEN Null ELSE token
        va == ValidateAuthResume(run.pathname, gcu.ret)
        store2 == IF va.clear THEN Null ELSE store1
        rest == RemoveAt(gateInFlight, i)
        calls == <<Call("gate", run.token, resp, gcu.ret, store1)>>
        done == <<Pass(run.pathname, gcu.ret, va.navs)>>
        newest == IF i = Len(gateInFlight) /\ gateNewest = "pending"
                  THEN IF Truthy(gcu.ret) THEN "ok" ELSE "absent"
                  ELSE gateNewest
    IN /\ op' = "GateResponse"
       /\ input' = resp
       /\ result' = Null
       /\ gateMounted' = gateMounted
       /\ IF gateMounted /\ va.navs # <<>> /\ va.navs[Len(va.navs)] # path
          THEN /\ path' = va.navs[Len(va.navs)]
               /\ GateStart(path', store2, Null, rest, va.user, FALSE, done, calls)
          ELSE /\ path' = IF va.navs # <<>> THEN va.navs[Len(va.navs)] ELSE path
               /\ urlToken' = IF va.navs # <<>> THEN Null ELSE urlToken
               /\ token' = store2
               /\ lastWrite' = token'
               /\ lastSent' = lastSent
               /\ gateInFlight' = rest
               /\ gateNewest' = newest
               /\ gateUser' = IF gateMounted THEN va.user ELSE gateUser
               /\ gateIsLoading' = IF gateMounted THEN FALSE ELSE gateIsLoading
               /\ gcuDone' = calls
               /\ gateDone' = done
       /\ UNCHANGED <<authVars, afVars, viewVars>>

NextGate ==
    \/ GateMount
    \/ \E p \in Paths : GatePathChange(p)
    \/ \E p \in Paths : GateUnmount(p)
    \/ \E i \in 1..Len(gateInFlight), resp \in AuthMeResponses : GateResponse(i, resp)

\* -------------------------------------------------------------- useAuth
\* loadUser after the await of getCurrentUser: setUser(userData).
LoadUserResume(userData) == [user |-> userData, loading |-> FALSE]

\* useAuth mounts: its effect runs loadUser once.
UseAuthMount ==
    LET gcu == GetCurrentUserBegin(token)
        lu == LoadUserResume(gcu.ret)
    IN /\ authLoad.state = "unmounted"
       /\ op' = "UseAuthMount"
       /\ input' = Null
       /\ result' = Null
       /\ IF gcu.sends
          THEN /\ authLoad' = [state |-> "pending", token |-> token]
               /\ lastSent' = Request("GET /auth/me", token, token)
               /\ authLoading' = TRUE
               /\ UNCHANGED <<authUser, gcuDone>>
          ELSE /\ authLoad' = [state |-> "done", token |-> Null]
               /\ authUser' = lu.user
               /\ authLoading' = lu.loading
               /\ gcuDone' = <<Call("useAuth", token, NoResponse, gcu.ret, token)>>
               /\ UNCHANGED lastSent
       /\ UNCHANGED <<token, lastWrite, urlToken, path, authLoggedOut, logoutInFlight, gateVars, afVars, viewVars>>

\* GET /auth/me of loadUser settles with `resp`.
UseAuthLoadUserResponse(resp) ==
    LET gcu == GetCurrentUserResume(resp)
        store1 == IF gcu.clear THEN Null ELSE token
        lu == LoadUserResume(gcu.ret)
    IN /\ authLoad.state = "pending"
       /\ op' = "UseAuthLoadUserResponse"
       /\ input' = resp
       /\ result' = Null
       /\ token' = store1
       /\ lastWrite' = IF gcu.clear THEN Null ELSE lastWrite
       /\ authUser' = lu.user
       /\ authLoading' = lu.loading
       /\ authLoad' = [state |-> "done", token |-> Null]
       /\ gcuDone' = <<Call("useAuth", authLoad.token, resp, gcu.ret, store1)>>
       /\ UNCHANGED <<urlToken, path, lastSent, authLoggedOut, logoutInFlight, gateVars, afVars, viewVars>>

\* AuthService.logout up to its await: with no token it returns at once.
LogoutBegin(store) == [sends |-> Truthy(store)]
\* AuthService.logout after the await: the finally block clears the store
\* whatever the answer was, and logout resolves.
LogoutResume_ClearOnSuccess(resp) ==
    [clear |-> resp.kind = "http" /\ Ok(resp), throws |-> resp.kind = "neterr"]
LogoutResume(resp) == [clear |-> TRUE, throws |-> FALSE]

\* The logout() of useAuth is called.
UseAuthLogout ==
    LET lo == LogoutBegin(token)
    IN /\ authLoad.state # "unmounted"
       /\ op' = "UseAuthLogout"
       /\ input' = Null
       /\ result' = IF lo.sends THEN "pending" ELSE "resolved"
       /\ IF lo.sends
          THEN /\ logoutInFlight < MaxLogouts
               /\ logoutInFlight' = logoutInFlight + 1
               /\ lastSent' = Request("POST /auth/logout", token, token)
               /\ UNCHANGED <<authUser, authLoggedOut>>
          ELSE /\ authUser' = Null
               /\ authLoggedOut' = TRUE
               /\ UNCHANGED <<logoutInFlight, lastSent>>
       /\ UNCHANGED <<token, lastWrite, urlToken, path, gcuDone, authLoad, authLoading, gateVars, afVars, viewVars>>

\* POST /auth/logout settles with `resp`; logout() of useAuth then runs
\* setUser(null).
UseAuthLogoutResponse(resp) ==
    LET lo == LogoutResume(resp)
    IN /\ logoutInFlight > 0
       /\ op' = "UseAuthLogoutResponse"
       /\ input' = resp
       /\ result' = IF lo.throws THEN "throw" ELSE "resolved"
       /\ logoutInFlight' = logoutInFlight - 1
       /\ token' = IF lo.clear THEN Null ELSE token
       /\ lastWrite' = IF lo.clear THEN Null ELSE lastWrite
       /\ authUser' = IF lo.throws THEN authUser ELSE Null
       /\ authLoggedOut' = (authLoggedOut \/ ~lo.throws)
       /\ UNCHANGED <<urlToken, path, lastSent, gcuDone, authLoad, authLoading, gateVars, afVars, viewVars>>

LogoutResponses == {NetErr, Http(200, Null), Http(500, Null)}

NextAuth ==
    \/ UseAuthMount
    \/ \E resp \in AuthMeResponses : UseAuthLoadUserResponse(resp)
    \/ UseAuthLogout
    \/ \E resp \in LogoutResponses : UseAuthLogoutResponse(resp)

\* --------------------------------------------------- authenticatedFetch
\* The endpoint of the documented caller of authenticatedFetch.
FetchEndpoints == {"GET /user/emails"}
FetchResponses == {NetErr} \cup {Http(s, Null) : s \in {200, 401, 404, 500}}

\* Some caller runs AuthService.authenticatedFetch(e).
AuthenticatedFetchCall(e) ==
    LET af == AuthenticatedFetchBegin(token)
    IN /\ op' = "AuthenticatedFetchCall"
       /\ input' = e
       /\ result' = Null
       /\ IF af.sends
          THEN /\ Len(afInFlight) < MaxFetches
               /\ afInFlight' = Append(afInFlight, [endpoint |-> e, token |-> token])
               /\ lastSent' = Request(e, token, token)
               /\ UNCHANGED afLast
          ELSE /\ afLast' = [token |-> token, resp |-> NoResponse, outcome |-> af.outcome]
               /\ UNCHANGED <<afInFlight, lastSent>>
       /\ UNCHANGED <<token, lastWrite, urlToken, path, gcuDone, gateVars, authVars, viewVars>>

\* The i-th awaiting authenticatedFetch gets its answer.
AuthenticatedFetchResponse(i, resp) ==
    LET call == afInFlight[i]
        af == AuthenticatedFetchResume(resp)
    IN /\ op' = "AuthenticatedFetchResponse"
       /\ input' = resp
       /\ result' = Null
       /\ token' = IF af.clear THEN Null ELSE token
       /\ lastWrite' = IF af.clear THEN Null ELSE lastWrite
       /\ afInFlight' = RemoveAt(afInFlight, i)
       /\ afLast' = [token |-> call.token, resp |-> resp, outcome |-> af.outcome]
       /\ UNCHANGED <<urlToken, path, lastSent, gcuDone, gateVars, authVars, viewVars>>

NextFetch ==
    \/ \E e \in FetchEndpoints : AuthenticatedFetchCall(e)
    \/ \E i \in 1..Len(afInFlight), resp \in FetchResponses : AuthenticatedFetchResponse(i, resp)

\* -------------------------------------------------------- Session Store
\* AuthService.setToken(t) by any caller (another tab completing sign-in).
SetToken_KeepExisting(t) ==
    /\ op' = "SetToken"
    /\ input' = t
    /\ result' = Null
    /\ token' = IF Truthy(token) THEN token ELSE t
    /\ lastWrite' = t
    /\ UNCHANGED <<urlToken, path, lastSent, gcuDone, gateVars, authVars, afVars, viewVars>>
SetToken(t) ==
    /\ op' = "SetToken"
    /\ input' = t
    /\ result' = Null
    /\ token' = t
    /\ lastWrite' = t
    /\ UNCHANGED <<urlToken, path, lastSent, gcuDone, gateVars, authVars, afVars, viewVars>>

\* AuthService.clearToken() by any caller.
ClearToken ==
    /\ op' = "ClearToken"
    /\ input' = Null
    /\ result' = Null
    /\ token' = Null
    /\ lastWrite' = Null
    /\ UNCHANGED <<urlToken, path, lastSent, gcuDone, gateVars, authVars, afVars, viewVars>>

\* AuthService.getToken()
GetToken == token

NextStore ==
    \/ \E t \in Tokens : SetToken(t)
    \/ ClearToken

\* AuthService.handleCallback() called by a page when it loads (the gate calls
\* it through GateStart).
HandleCallbackCall ==
    LET cb == HandleCallback(token, urlToken)
    IN /\ op' = "HandleCallback"
       /\ input' = Null
       /\ result' = cb.ret
       /\ token' = cb.store
       /\ lastWrite' = IF Truthy(cb.ret) THEN cb.ret ELSE lastWrite
       /\ urlToken' = cb.url
       /\ UNCHANGED <<path, lastSent, gcuDone, gateVars, authVars, afVars, viewVars>>

\* ------------------------------------------------------------ Report page
\* parseInt of the :id parameter; 0 stands for NaN.
ParseInt(s) == IF s = "1" THEN 1 ELSE 0
\* String.prototype.trim on the texts of the model.
Trim(s) == IF s = "   " THEN "" ELSE IF s = " bye" THEN "bye" ELSE s

\* reportId: report?.id || (id ? parseInt(id) : undefined); 0 is "undefined".
ReportId(rep, idParam) ==
    IF rep.present /\ rep.id # 0 THEN rep.id
    ELSE IF idParam # "none" THEN ParseInt(idParam) ELSE 0

\* The loadReport effect up to its await: `if (!reportId || report) return`.
LoadReportBegin_IgnoreInline(rep, idParam) ==
    [sends |-> ReportId(rep, idParam) # 0, id |-> ReportId(rep, idParam)]
LoadReportBegin(rep, idParam) ==
    [sends |-> ReportId(rep, idParam) # 0 /\ ~rep.present, id |-> ReportId(rep, idParam)]

\* loadReport after the await of fetch: the report and the transcript it
\* sets (set = FALSE: setReport is not reached).
LoadReportResume(resp) ==
    IF resp.kind = "http" /\ Ok(resp)
    THEN [set |-> TRUE, report |-> resp.body,
          messages |-> IF resp.body.hasMessages THEN resp.body.messages ELSE <<Welcome>>]
    ELSE [set |-> FALSE, report |-> NoReport, messages |-> <<Welcome>>]

\* The effect on [report]: the transcript it leaves, given the messages of the
\* render it closed over.
BootstrapMessages_WelcomeFirst(rep, msgs) ==
    IF Len(msgs) = 0 THEN <<Welcome>> ELSE msgs
BootstrapMessages(rep, msgs) ==
    IF rep.present /\ rep.hasMessages /\ Len(msgs) = 0 THEN rep.messages
    ELSE IF Len(msgs) = 0 THEN <<Welcome>>
    ELSE msgs

\* sendMessage up to its await: `if (!message.trim() || !reportId) return`.
SendMessageBegin_NoTrim(text, rid) == [sends |-> text # "" /\ rid # 0]
SendMessageBegin(text, rid) == [sends |-> Trim(text) # "" /\ rid # 0]

\* sendMessage after the await: the assistant message it appends.
SendMessageResume_NoFallback(resp) ==
    IF resp.kind = "http" /\ Ok(resp) THEN Message("assistant", resp.body)
    ELSE Message("assistant", SendErrorReply)
SendMessageResume(resp) ==
    IF resp.kind = "http" /\ Ok(resp)
    THEN Message("assistant", IF resp.body # "" THEN resp.body ELSE GenericReply)
    ELSE Message("assistant", SendErrorReply)

\* The Report view mounts with the navigation payload `inline` (NoReport when
\* there is none) and the address parameter `idp`; its effects run.
ReportMount(inline, idp) ==
    LET lr == LoadReportBegin(inline, idp)
    IN /\ ~rptMounted
       /\ op' = "ReportMount"
       /\ input' = Null
       /\ result' = Null
       /\ rptMounted' = TRUE
       /\ rptIdParam' = idp
       /\ report' = inline
       /\ loading' = (lr.sends \/ ~inline.present)
       /\ rptLoad' = IF lr.sends THEN lr.id ELSE 0
       /\ lastSent' = IF lr.sends THEN Request("GET /reports/{id}", Null, token) ELSE lastSent
       /\ messages' = BootstrapMessages(inline, <<>>)
       /\ UNCHANGED <<token, lastWrite, urlToken, path, gcuDone, rptSends, rptSendCount,
                      gateVars, authVars, afVars, sbVars>>

\* GET /reports/{id} settles with `resp`; the state updates are rendered and
\* the effect on [report] runs if report changed.
ReportLoadResponse(resp) ==
    LET lr == LoadReportResume(resp)
    IN /\ rptLoad # 0
       /\ op' = "ReportLoadResponse"
       /\ input' = resp
       /\ result' = Null
       /\ rptLoad' = 0
       /\ report' = IF lr.set THEN lr.report ELSE report
       /\ messages' = IF lr.set THEN BootstrapMessages(lr.report, lr.messages) ELSE lr.messages
       /\ loading' = FALSE
       /\ UNCHANGED <<storeVars, rptMounted, rptIdParam, rptSends, rptSendCount,
                      gateVars, authVars, afVars, sbVars>>

\* The user submits `text`.
SendMessage(text) ==
    LET rid == ReportId(report, rptIdParam)
        sm == SendMessageBegin(text, rid)
    IN /\ rptMounted
       /\ op' = "SendMessage"
       /\ input' = text
       /\ result' = Null
       /\ IF sm.sends
          THEN /\ rptSendCount < MaxSends
               /\ rptSendCount' = rptSendCount + 1
               /\ messages' = Append(messages, Message("user", text))
               /\ rptSends' = Append(rptSends, [id |-> rid, text |-> text])
               /\ lastSent' = Request("POST /message/{id}", Null, token)
          ELSE UNCHANGED <<rptSendCount, messages, rptSends, lastSent>>
       /\ UNCHANGED <<token, lastWrite, urlToken, path, gcuDone, rptMounted, rptIdParam, report, loading,
                      rptLoad, gateVars, authVars, afVars, sbVars>>

\* POST /message/{id} of the i-th awaiting sendMessage settles with `resp`.
SendMessageResponse(i, resp) ==
    /\ op' = "SendMessageResponse"
    /\ input' = resp
    /\ result' = Null
    /\ messages' = Append(messages, SendMessageResume(resp))
    /\ rptSends' = RemoveAt(rptSends, i)
    /\ UNCHANGED <<storeVars, rptMounted, rptIdParam, report, loading, rptLoad, rptSendCount,
                   gateVars, authVars, afVars, sbVars>>

\* openReport(r) of the ChatSidebar: navigate("/report", { state: { report: r } }).
\* With no Report view mounted the view mounts on r.  A Report view already
\* at /report stays mounted (same route, same element): useState keeps its
\* report, no effect has a changed dependency, so only location.state differs.
OpenReport(r) ==
    LET lr == LoadReportBegin(r, "none")
    IN /\ ~rptMounted \/ rptIdParam = "none"
       /\ op' = "OpenReport"
       /\ input' = r
       /\ result' = Null
       /\ IF ~rptMounted
          THEN /\ rptMounted' = TRUE
               /\ rptIdParam' = "none"
               /\ report' = r
               /\ loading' = (lr.sends \/ ~r.present)
               /\ rptLoad' = IF lr.sends THEN lr.id ELSE 0
               /\ lastSent' = IF lr.sends THEN Request("GET /reports/{id}", Null, token)
                               ELSE lastSent
               /\ messages' = BootstrapMessages(r, <<>>)
          ELSE UNCHANGED <<rptMounted, rptIdParam, report, loading, rptLoad, lastSent, messages>>
       /\ UNCHANGED <<token, lastWrite, urlToken, path, gcuDone, rptSends, rptSendCount,
                      gateVars, authVars, afVars, sbVars>>

NextReport ==
    \/ \E inline \in Reports \cup {NoReport} : \E idp \in IdParams : ReportMount(inline, idp)
    \/ \E r \in Reports : OpenReport(r)
    \/ \E resp \in ReportResponses : ReportLoadResponse(resp)
    \/ \E text \in Texts : SendMessage(text)
    \/ \E i \in 1..Len(rptSends), resp \in SendResponses : SendMessageResponse(i, resp)

\* ------------------------------------------------------------ ChatSidebar
\* The Authorization header fetchReports builds: `if (token) headers[...]`.
FetchReportsAuth(store) == IF Truthy(store) THEN store ELSE Null

\* fetchReports after the await of fetch.
FetchReportsResume_SilentFailure(resp) ==
    IF resp.kind = "http" /\ Ok(resp)
    THEN [set |-> TRUE, reports |-> IF resp.isArray THEN resp.list ELSE <<>>, failed |-> FALSE]
    ELSE [set |-> FALSE, reports |-> <<>>, failed |-> FALSE]
FetchReportsResume(resp) ==
    IF resp.kind = "http" /\ Ok(resp)
    THEN [set |-> TRUE, reports |-> IF resp.isArray THEN resp.list ELSE <<>>, failed |-> FALSE]
    ELSE [set |-> FALSE, reports |-> <<>>, failed |-> TRUE]

\* ChatSidebar mounts: its effect runs fetchReports once.
SidebarMount ==
    /\ ~sbMounted
    /\ op' = "SidebarMount"
    /\ input' = Null
    /\ result' = Null
    /\ sbMounted' = TRUE
    /\ sbLoading' = TRUE
    /\ sbError' = Null
    /\ sbInFlight' = sbInFlight + 1
    /\ lastSent' = Request("GET /reports", FetchReportsAuth(token), token)
    /\ UNCHANGED <<token, lastWrite, urlToken, path, gcuDone, sbReports, gateVars, authVars, afVars, rptVars>>

\* GET /reports settles with `resp`.
SidebarResponse(resp) ==
    LET fr == FetchReportsResume(resp)
    IN /\ sbInFlight > 0
       /\ op' = "SidebarResponse"
       /\ input' = resp
       /\ result' = Null
       /\ sbInFlight' = sbInFlight - 1
       /\ sbReports' = IF fr.set THEN fr.reports ELSE sbReports
       /\ sbError' = IF fr.failed THEN "Unable to load reports" ELSE sbError
       /\ sbLoading' = FALSE
       /\ UNCHANGED <<storeVars, sbMounted, gateVars, authVars, afVars, rptVars>>

NextSidebar ==
    \/ SidebarMount
    \/ \E resp \in ListResponses : SidebarResponse(resp)

\* The Report view.
\* The Report view reads neither the token parameter of the address nor the
\* pathname the gate watches: it starts from one value of each.
InitReport == Init /\ urlToken = Null /\ path = "/dashboard"
SpecReport == InitReport /\ [][NextReport]_vars
\* The ChatSidebar and the session store.
SpecSidebar == Init /\ [][NextSidebar \/ NextStore]_vars
\* The Auth Gate and the session store.
SpecGate == Init /\ [][NextGate \/ NextStore]_vars
\* useAuth and the session store.
SpecAuth == Init /\ [][NextAuth \/ NextStore]_vars
\* authenticatedFetch and the session store.
SpecFetch == Init /\ [][NextFetch \/ NextStore]_vars
\* The Session Store under all of its writers outside the gate.
SpecStore == Init /\ [][NextStore \/ HandleCallbackCall \/ NextAuth]_vars
\* The Report view when every request it awaits is eventually answered.
SpecReportFair ==
    /\ SpecReport
    /\ WF_vars(\E resp \in ReportResponses : ReportLoadResponse(resp))
    /\ WF_vars(\E i \in 1..Len(rptSends), resp \in SendResponses : SendMessageResponse(i, resp))
Next == NextGate \/ HandleCallbackCall \/ NextAuth \/ NextFetch \/ NextStore \/ NextReport \/ NextSidebar
\* Every component together.
Spec == Init /\ [][Next]_vars
\* ================================================================ claims
IsPrefix(a, b) == Len(a) <= Len(b) /\ SubSeq(b, 1, Len(a)) = a
Failed(resp) == resp.kind = "neterr" \/ (resp.kind = "http" /\ ~Ok(resp))
Is401(resp) == resp.kind = "http" /\ resp.status = 401

\* C1: the session is shown as authenticated only if the most recently started
\* validation succeeded (or is still awaiting its answer): a late 2xx answer of
\* an older validateAuth run never sets user after a newer run made it null,
\* and a late 2xx answer of loadUser never sets user after logout() made it
\* null.
C1_AuthenticatedOnlyByNewestValidation ==
    /\ (gateMounted /\ Truthy(gateUser)) => gateNewest \in {"ok", "pending"}
    /\ authLoggedOut => ~Truthy(authUser)

\* C2: every request to an authenticated endpoint carries the stored
\* credential as its bearer Authorization header.
AuthenticatedEndpoints ==
    {"GET /auth/me", "POST /auth/logout", "GET /reports", "GET /reports/{id}",
     "POST /message/{id}"}
C2_AuthenticatedCallsCarryCredential ==
    lastSent.endpoint \in AuthenticatedEndpoints
        => Truthy(lastSent.auth) /\ lastSent.auth = lastSent.stored

\* C3: while the Report view is mounted the transcript only grows: each value
\* of messages is a prefix of the next.
C3_TranscriptOnlyGrows ==
    [][rptMounted => IsPrefix(messages, messages')]_vars

\* C4: a validateAuth run on a protected path (neither /signin nor /signup)
\* that got no session navigates to /signin.
C4_ProtectedViewRedirectsToSignIn ==
    \A i \in 1..Len(gateDone) :
        (gateDone[i].pathname \notin AuthPaths /\ ~Truthy(gateDone[i].session))
            => \E j \in 1..Len(gateDone[i].navs) : gateDone[i].navs[j] = "/signin"

\* C5: a validateAuth run navigates to /dashboard if and only if
\* getCurrentUser returned a session and the pathname of the run is /signin
\* or /signup; otherwise it does not navigate; it never navigates twice; and
\* the navigation is what moves the view to /dashboard.
C5_RedirectsToDashboardIffSessionOnAuthPath ==
    /\ \A i \in 1..Len(gateDone) :
          LET run == gateDone[i]
              redirect == Truthy(run.session) /\ run.pathname \in AuthPaths
          IN /\ Len(run.navs) <= 1
             /\ redirect => run.navs = <<"/dashboard">>
             /\ ~redirect => run.navs = <<>>
    /\ (op = "GateResponse" /\ gateDone # <<>> /\ gateDone[1].navs # <<>>)
          => path = "/dashboard"
C5_Witness ==
    /\ op = "GateResponse"
    /\ gateDone # <<>>
    /\ gateDone[1].navs = <<"/dashboard">>
    /\ gateDone[1].pathname = "/signup"
    /\ path = "/dashboard"

\* C6: a getCurrentUser call that read a credential and got 401 returns null
\* and leaves the store empty, and useAuth then holds no user.
C6_Validation401ClearsCredential ==
    /\ \A i \in 1..Len(gcuDone) :
          (Truthy(gcuDone[i].token) /\ Is401(gcuDone[i].resp))
              => gcuDone[i].storeAfter = Null /\ gcuDone[i].ret = Null
    /\ (op = "UseAuthLoadUserResponse" /\ Is401(gcuDone[1].resp))
          => token = Null /\ authUser = Null
C6_Witness ==
    /\ op = "UseAuthLoadUserResponse"
    /\ Truthy(gcuDone[1].token)
    /\ Is401(gcuDone[1].resp)
    /\ token = Null

\* C7: a getCurrentUser call that read a credential and got a network error
\* or a non-2xx status other than 401 returns null and leaves the store empty.
C7_ValidationFailureClearsCredential ==
    \A i \in 1..Len(gcuDone) :
        (Truthy(gcuDone[i].token) /\ Failed(gcuDone[i].resp) /\ ~Is401(gcuDone[i].resp))
            => gcuDone[i].storeAfter = Null /\ gcuDone[i].ret = Null

\* C8: an authenticatedFetch that gets 401 fails with 'Authentication
\* expired' and leaves the store empty.
C8_Fetch401ClearsAndFails ==
    Is401(afLast.resp)
        => /\ afLast.outcome = AuthenticationExpired
           /\ op = "AuthenticatedFetchResponse" => token = Null
C8_Witness ==
    /\ op = "AuthenticatedFetchResponse"
    /\ Is401(afLast.resp)
    /\ Truthy(afLast.token)
    /\ token = Null

\* C9 as stated: an authenticatedFetch that gets a non-2xx status other than
\* 401 fails with a 'request failed' error.
RequestFailed == "throw: request failed"
C9_FetchFailureThrows ==
    (Failed(afLast.resp) /\ afLast.resp.kind = "http" /\ ~Is401(afLast.resp))
        => afLast.outcome = RequestFailed
\* C9 as amended: an authenticatedFetch that gets a non-2xx status other than
\* 401 returns the Response to its caller without raising an error, and the
\* stored credential is left unchanged.
C9_FetchFailureReturnsResponse ==
    [][(/\ op' = "AuthenticatedFetchResponse"
        /\ afLast'.resp.kind = "http"
        /\ ~Ok(afLast'.resp)
        /\ ~Is401(afLast'.resp))
          => afLast'.outcome = "return" /\ token' = token]_vars
C9_Witness ==
    /\ op = "AuthenticatedFetchResponse"
    /\ afLast.resp = Http(500, Null)
    /\ afLast.outcome = "return"
    /\ Truthy(token)

\* C10: after clearToken() getToken() returns null, and an authenticatedFetch
\* called while the store is empty fails with the missing-credential error,
\* issues no request and leaves the store empty.
C10_EmptyStoreRejectsLocally ==
    /\ [](op = "ClearToken" => GetToken = Null)
    /\ [][(op' = "AuthenticatedFetchCall" /\ token = Null)
            => /\ afLast'.outcome = MissingCredential
               /\ afInFlight' = afInFlight
               /\ lastSent' = lastSent
               /\ token' = Null]_vars
C10_Witness ==
    /\ op = "AuthenticatedFetchCall"
    /\ afLast.outcome = MissingCredential
    /\ token = Null
    /\ lastSent = NoRequest

\* C11: with no credential stored getCurrentUser returns null at once and
\* issues no network request, and AuthService.logout likewise returns without
\* issuing a request.
C11_NoCredentialNoRequest ==
    [][/\ (op' = "UseAuthMount" /\ token = Null)
            => /\ lastSent' = lastSent
               /\ authLoad'.state = "done"
               /\ gcuDone' = <<Call("useAuth", Null, NoResponse, Null, Null)>>
       /\ (op' = "UseAuthLogout" /\ token = Null)
            => /\ lastSent' = lastSent
               /\ logoutInFlight' = logoutInFlight
               /\ result' = "resolved"]_vars
C11_Witness ==
    /\ op = "UseAuthLogout"
    /\ result = "resolved"
    /\ token = Null
    /\ lastSent = NoRequest
    /\ gcuDone = <<Call("useAuth", Null, NoResponse, Null, Null)>>

\* C12: after any sequence of setToken, clearToken, handleCallback and logout
\* the store holds at most one credential, and getToken() returns the value of
\* the most recent write if no clear came after it, null otherwise.
C12_StoreHoldsLastWrite ==
    /\ GetToken \in Tokens \cup {Null}
    /\ GetToken = lastWrite
C12_Witness ==
    /\ op = "SetToken"
    /\ input = "tokB"
    /\ GetToken = "tokB"
    /\ authLoggedOut
    /\ urlToken = Null

\* C13: handleCallback on an address that carries a token parameter stores
\* that token (replacing any stored one), removes the parameter without a
\* navigation and returns the token; handleCallback called again right after
\* returns null and changes neither the store nor the address.
C13_CallbackStoresOnceThenNoOp ==
    [][/\ (op' = "HandleCallback" /\ Truthy(urlToken))
            => /\ token' = urlToken
               /\ result' = urlToken
               /\ urlToken' = Null
               /\ path' = path
               /\ lastSent' = lastSent
       /\ (op' = "HandleCallback" /\ op = "HandleCallback")
            => /\ result' = Null
               /\ token' = token
               /\ urlToken' = urlToken
               /\ path' = path]_vars
C13_Witness ==
    /\ op = "HandleCallback"
    /\ result = "tokB"
    /\ token = "tokB"
    /\ urlToken = Null

\* C14: when POST /auth/logout settles, whatever its outcome (2xx, non-2xx,
\* network error), the store is empty, logout has resolved without an error
\* and useAuth has set user to null.
C14_LogoutAlwaysClears ==
    [][op' = "UseAuthLogoutResponse"
            => /\ input' \in LogoutResponses
               /\ token' = Null
               /\ result' = "resolved"
               /\ authUser' = Null]_vars
C14_Witness ==
    /\ op = "UseAuthLogoutResponse"
    /\ input = NetErr
    /\ token = Null
    /\ result = "resolved"
    /\ lastSent.endpoint = "POST /auth/logout"
    /\ Truthy(lastSent.stored)

\* C15: a Report whose messages are empty ([] or missing), inline or fetched,
\* gives (before any send) a transcript of exactly the one welcome message.
C15_EmptyMessagesGiveWelcome ==
    (/\ rptMounted
     /\ report.present
     /\ (~report.hasMessages \/ report.messages = <<>>)
     /\ rptSendCount = 0)
        => messages = <<Welcome>>

\* C16: a Report whose messages are a non-empty list, inline or fetched,
\* gives (before any send) a transcript equal to exactly that list.
C16_StoredMessagesShownAsIs ==
    (/\ rptMounted
     /\ report.present
     /\ report.hasMessages
     /\ report.messages # <<>>
     /\ rptSendCount = 0)
        => messages = report.messages
C16_Witness ==
    /\ op = "ReportLoadResponse"
    /\ input.kind = "http"
    /\ report.present
    /\ messages = StoredMessages

\* C17: a sendMessage that sends appends the user turn with the sent text,
\* and when its POST succeeds the step of the answer appends one assistant
\* message: the reply, or the generic acknowledgment when there is none.
C17_SuccessfulSendAppendsTwo ==
    [][/\ (op' = "SendMessage" /\ rptSends' # rptSends)
            => /\ messages' = Append(messages, Message("user", input'))
               /\ lastSent'.endpoint = "POST /message/{id}"
       /\ (op' = "SendMessageResponse" /\ input'.kind = "http" /\ Ok(input'))
            => messages' = Append(messages,
                   Message("assistant",
                           IF input'.body # "" THEN input'.body ELSE GenericReply))]_vars
C17_Witness ==
    /\ op = "SendMessageResponse"
    /\ input = Http(200, "")
    /\ Len(messages) >= 2
    /\ messages[Len(messages) - 1] = Message("user", "hello")
    /\ messages[Len(messages)] = Message("assistant", GenericReply)

\* C18: when the POST of a sendMessage fails (network error or non-2xx) the
\* user turn of that send is still in the transcript and exactly one assistant
\* error message is appended after it.
C18_FailedSendKeepsUserTurn ==
    [][(op' = "SendMessageResponse" /\ Failed(input'))
            => /\ messages' = Append(messages, Message("assistant", SendErrorReply))
               /\ \E i \in 1..Len(rptSends) :
                    /\ rptSends' = RemoveAt(rptSends, i)
                    /\ \E k \in 1..Len(messages) :
                         messages[k] = Message("user", rptSends[i].text)]_vars

\* C19: a sendMessage whose text is empty after trimming, or with no report
\* identifier known, leaves the transcript unchanged and issues no request.
C19_BlankOrUnidentifiedSendIsNoOp ==
    [][(/\ op' = "SendMessage"
        /\ (Trim(input') = "" \/ ReportId(report, rptIdParam) = 0))
            => /\ messages' = messages
               /\ lastSent' = lastSent
               /\ rptSends' = rptSends]_vars
C19_Witness ==
    /\ op = "SendMessage"
    /\ input = "   "
    /\ ReportId(report, rptIdParam) # 0
    /\ messages = <<Welcome>>
    /\ lastSent = NoRequest

\* C20: a mounted ChatSidebar issues exactly one GET /reports; when it fails
\* (network error or non-2xx) the list is empty, the error is recorded,
\* loading ends and no further request is issued.
C20_OneRequestFailureRecorded ==
    /\ [](sbInFlight <= 1 /\ (sbInFlight = 1 => sbMounted))
    /\ [][op' = "SidebarMount"
            => sbInFlight' = 1 /\ lastSent'.endpoint = "GET /reports"]_vars
    /\ [][op' = "SidebarResponse"
            => /\ sbInFlight' = 0
               /\ lastSent' = lastSent
               /\ Failed(input')
                    => /\ sbReports' = <<>>
                       /\ sbError' = "Unable to load reports"
                       /\ sbLoading' = FALSE]_vars
C20_Witness ==
    /\ op = "SidebarResponse"
    /\ input = ListResponse("http", 500, FALSE, <<>>)
    /\ sbReports = <<>>
    /\ sbError = "Unable to load reports"
    /\ ~sbLoading
    /\ sbInFlight = 0

\* C21: a 401 answer to an authenticated call of a view (here GET /reports of
\* the list provider) leaves the credential store empty.
C21_Any401ClearsCredential ==
    (op = "SidebarResponse" /\ Is401(input)) => token = Null

\* C23: with any number of sends awaiting and any order of answers, every
\* issued send has its user turn in the transcript, every settled send has
\* exactly one assistant message there, and no assistant message of a send
\* comes before that send's user turn.
IsSentTurn(m) == m.role = "user" /\ m.content \in Texts
IsReply(m) == m.role = "assistant" /\ m.content \in {"ok", GenericReply, SendErrorReply}
C23_ConcurrentSendsAllKept ==
    /\ Len(SelectSeq(messages, IsSentTurn)) = rptSendCount
    /\ Len(SelectSeq(messages, IsReply)) = rptSendCount - Len(rptSends)
    /\ \A k \in 1..Len(messages) :
          Len(SelectSeq(SubSeq(messages, 1, k), IsReply))
              <= Len(SelectSeq(SubSeq(messages, 1, k), IsSentTurn))

\* C24: in a gate activation handleCallback runs before getCurrentUser and
\* validation always runs: a token in the address is stored before the
\* /auth/me request is built, and that request carries it.
C24_CallbackBeforeValidation ==
    [][/\ (op' = "GateMount" /\ Truthy(urlToken))
            => /\ token' = urlToken
               /\ urlToken' = Null
               /\ lastSent' = Request("GET /auth/me", urlToken, urlToken)
               /\ gateInFlight' = <<[pathname |-> path, token |-> urlToken]>>
       /\ op' = "GateMount"
            => \/ gateInFlight' # <<>> /\ lastSent'.endpoint = "GET /auth/me"
               \/ gcuDone' # <<>> /\ token = Null /\ urlToken = Null]_vars
C24_Witness ==
    /\ op = "GateMount"
    /\ token = "tokB"
    /\ urlToken = Null
    /\ lastSent = Request("GET /auth/me", "tokB", "tokB")
    /\ Len(gateInFlight) = 1

\* C26: a Report view given an inline report never issues GET /reports/{id}:
\* mounting with a report issues nothing, a resolved report stays resolved,
\* and a GET /reports/{id} is only ever awaited or issued without a report.
C26_InlineReportNeverFetched ==
    /\ [](rptLoad # 0 => ~report.present)
    /\ [][(op' = "ReportMount" /\ report'.present)
            => /\ rptLoad' = 0
               /\ lastSent' = lastSent
               /\ ~loading']_vars
    /\ [][(rptMounted /\ report.present) => report'.present /\ rptLoad' = 0]_vars
    /\ [][(lastSent' # lastSent /\ lastSent'.endpoint = "GET /reports/{id}")
            => ~report'.present]_vars
C26_Witness ==
    /\ op = "ReportMount"
    /\ report.present
    /\ report.id = 1
    /\ rptIdParam = "1"
    /\ lastSent = NoRequest
    /\ ~loading

\* C27: after GET /reports/{id} failed the report is unresolved, the
\* discrepancy list is empty, the fetch is not retried, and the transcript
\* holds no assistant message saying that a summary was generated.
C27_FailedLoadFabricatesNothing ==
    (op = "ReportLoadResponse" /\ Failed(input))
        => /\ ~report.present
           /\ report.discrepancy = <<>>
           /\ rptLoad = 0
           /\ \A k \in 1..Len(messages) : messages[k] # Welcome

\* C28: the failure answer of an authenticatedFetch removes a credential from
\* the store only if it is the credential that request carried.
C28_OnlyOwnCredentialRemoved ==
    [][(op' = "AuthenticatedFetchResponse" /\ Truthy(token) /\ token' = Null)
            => afLast'.token = token]_vars

\* C29: the gate holds a session, and redirects on it, only if GET /auth/me
\* answered 2xx with a body whose authenticated field is true.
C29_SessionOnlyWhenAuthenticated ==
    /\ Truthy(gateUser) => gateUser = "user_authenticated"
    /\ \A i \in 1..Len(gateDone) :
          Truthy(gateDone[i].session) => gateDone[i].session = "user_authenticated"

\* C22: an answer of GET /auth/me that arrives after the gate's component
\* unmounted changes neither user nor isLoading and makes no navigation.
C22_LateResultDiscarded ==
    [][(op' = "GateResponse" /\ ~gateMounted)
            => /\ gateUser' = gateUser
               /\ gateIsLoading' = gateIsLoading
               /\ path' = path]_vars

\* C25: the loading flag of a mounted Report view eventually becomes false,
\* whether or not an inline report and a report id are present.
C25_LoadingEventuallyClears ==
    rptMounted ~> ~loading

\* C30: after openReport(R) the Report view shows R, and the step issues no
\* GET /reports/{id}, also when the view was already showing another report.
C30_OpenReportShowsSelection ==
    [][op' = "OpenReport" => report' = input' /\ lastSent' = lastSent]_vars
====
